---- MODULE Spec2Model ----
(***************************************************************************)
(* Model of src/src/App.vue: the experiment-tracking page.                 *)
(*                                                                         *)
(* State: the refs fileName, dataReady, experiments, selectedExperiments,  *)
(* the FileReader reads in flight, and the host's Array.prototype.sort.    *)
(* Operations: onFileSelect, reader.onload, the Checkbox v-model,          *)
(* groupExperiments, uniqueMetrics, getChartData.                          *)
(*                                                                         *)
(* Data encoding                                                           *)
(*  - a CSV field (raw.step, raw.value) is a sequence of one-character     *)
(*    strings, so that Number() and toString() are real conversions;       *)
(*  - a JS number is [nan |-> BOOLEAN, v |-> Nat]; NaN is one value with   *)
(*    nan = TRUE, and it never equals anything under NumEq;                *)
(*  - a JS Map is the sequence of its entries [key, value] in insertion    *)
(*    order, which is the order Map iteration follows;                     *)
(*  - a file is the sequence of rows Papa.parse (header: true,             *)
(*    skipEmptyLines: true) reads from it; papaparse is not part of the    *)
(*    component.                                                           *)
(***************************************************************************)
EXTENDS Integers, Sequences, FiniteSets, TLC

VARIABLES
    fileName,            \* ref fileName
    dataReady,           \* ref dataReady
    experiments,         \* ref experiments: Map<string, Experiment>
    selectedExperiments, \* ref selectedExperiments: string[]
    readers,             \* FileReader reads in flight, oldest first: each file's rows
    hostSort,            \* what the host's sort does where the language leaves it open
    rawList,             \* the argument of the latest groupExperiments call
    ret                  \* the value returned by the latest library call

vars == <<fileName, dataReady, experiments, selectedExperiments, readers,
          hostSort, rawList, ret>>

\* ------------------------------------------------------------------ bounds

\* Longest record sequence handed to groupExperiments in SpecBuild.
MaxRecords == 4

\* Longest record sequence behind the Index of SpecQuery.
MaxQueryRecords == 3

\* Longest Selection of SpecQuery.
MaxSelected == 2

\* Most FileReader reads in flight at once in Spec.
MaxPending == 2

\* ------------------------------------------------------------------ numbers

Num(n) == [nan |-> FALSE, v |-> n]

NaN == [nan |-> TRUE, v |-> 0]

\* JS ===, <= and > on numbers: every comparison with NaN is false.
NumEq(a, b) == ~a.nan /\ ~b.nan /\ a.v = b.v

NumLeq(a, b) == ~a.nan /\ ~b.nan /\ a.v <= b.v

Digit == {"0", "1", "2", "3", "4", "5", "6", "7", "8", "9"}

DigitVal(c) ==
    CASE c = "0" -> 0 [] c = "1" -> 1 [] c = "2" -> 2 [] c = "3" -> 3
      [] c = "4" -> 4 [] c = "5" -> 5 [] c = "6" -> 6 [] c = "7" -> 7
      [] c = "8" -> 8 [] c = "9" -> 9

DigitChar(d) ==
    CASE d = 0 -> "0" [] d = 1 -> "1" [] d = 2 -> "2" [] d = 3 -> "3"
      [] d = 4 -> "4" [] d = 5 -> "5" [] d = 6 -> "6" [] d = 7 -> "7"
      [] d = 8 -> "8" [] d = 9 -> "9"

RECURSIVE TrimStart(_)
TrimStart(t) ==
    IF t # <<>> /\ Head(t) = " " THEN TrimStart(Tail(t)) ELSE t

RECURSIVE TrimEnd(_)
TrimEnd(t) ==
    IF t # <<>> /\ t[Len(t)] = " " THEN TrimEnd(SubSeq(t, 1, Len(t) - 1)) ELSE t

RECURSIVE DecimalValue(_)
DecimalValue(t) ==
    IF t = <<>> THEN 0
    ELSE 10 * DecimalValue(SubSeq(t, 1, Len(t) - 1)) + DigitVal(t[Len(t)])

\* Number(text) on texts over digits, the space and the letter a: white space
\* is trimmed, the empty text is 0, a run of decimal digits is its value, and
\* anything else is NaN. Signs, fractions, exponents, hexadecimal literals and
\* Infinity are outside the texts the model draws.
Number(text) ==
    LET t == TrimEnd(TrimStart(text))
    IN  IF t = <<>> THEN Num(0)
        ELSE IF \A i \in 1..Len(t) : t[i] \in Digit THEN Num(DecimalValue(t))
        ELSE NaN

RECURSIVE DecimalDigits(_)
DecimalDigits(n) ==
    IF n < 10 THEN <<DigitChar(n)>>
    ELSE Append(DecimalDigits(n \div 10), DigitChar(n % 10))

\* Number.prototype.toString() of a non-negative integer or NaN.
toString(x) ==
    IF x.nan THEN <<"N", "a", "N">> ELSE DecimalDigits(x.v)

\* ------------------------------------------------------------------ Map

MapHas(m, k) == \E i \in 1..Len(m) : m[i].key = k

MapGet(m, k) == m[CHOOSE i \in 1..Len(m) : m[i].key = k].value

MapSet(m, k, v) ==
    IF MapHas(m, k)
    THEN [i \in 1..Len(m) |-> IF m[i].key = k THEN [key |-> k, value |-> v] ELSE m[i]]
    ELSE Append(m, [key |-> k, value |-> v])

MapKeys(m) == [i \in 1..Len(m) |-> m[i].key]

Range(s) == {s[i] : i \in 1..Len(s)}

\* ------------------------------------------------------------------ sort

\* The comparator with its operands exchanged: b.step - a.step.
compareFnReversed(a, b) ==
    IF a.step.nan \/ b.step.nan THEN 0 ELSE b.step.v - a.step.v

\* (a, b) => a.step - b.step, as sort reads it: a NaN result counts as +0.
compareFn(a, b) ==
    IF a.step.nan \/ b.step.nan THEN 0 ELSE a.step.v - b.step.v

\* ECMAScript's "consistent comparison function" for the elements of steps.
IsConsistent(steps) ==
    LET S == Range(steps)
    IN  \A a \in S, b \in S, c \in S :
            /\ compareFn(a, a) = 0
            /\ (compareFn(a, b) = 0 => compareFn(b, a) = 0)
            /\ (compareFn(a, b) = 0 /\ compareFn(b, c) = 0 => compareFn(a, c) = 0)
            /\ (compareFn(a, b) < 0 /\ compareFn(b, c) < 0 => compareFn(a, c) < 0)
            /\ (compareFn(a, b) > 0 /\ compareFn(b, c) > 0 => compareFn(a, c) > 0)

RECURSIVE InsertSorted(_, _)
InsertSorted(s, x) ==
    IF s # <<>> /\ compareFn(s[Len(s)], x) > 0
    THEN Append(InsertSorted(SubSeq(s, 1, Len(s) - 1), x), s[Len(s)])
    ELSE Append(s, x)

\* The stable sort the language requires under a consistent comparator.
RECURSIVE StableSort(_)
StableSort(s) ==
    IF s = <<>> THEN <<>>
    ELSE InsertSorted(StableSort(SubSeq(s, 1, Len(s) - 1)), s[Len(s)])

\* Every order the elements of s can be left in.
Reorderings(s) ==
    LET n == Len(s)
    IN  { [i \in 1..n |-> s[p[i]]] :
            p \in {q \in [1..n -> 1..n] : \A i, j \in 1..n : i # j => q[i] # q[j]} }

\* steps.sort(compareFn) on a host whose open choices are host.
sort(steps, host) ==
    IF IsConsistent(steps) THEN StableSort(steps) ELSE host[steps]

\* ------------------------------------------------------------------ groupExperiments

\* unshift in place of push: the new sample goes first.
pushStepFirst(steps, raw) ==
    <<[step |-> Number(raw.step), value |-> Number(raw.value)]>> \o steps

\* A push that skips a step the metric already holds.
pushStepUnique(steps, raw) ==
    IF \E i \in 1..Len(steps) : steps[i].step = Number(raw.step)
    THEN steps
    ELSE Append(steps, [step |-> Number(raw.step), value |-> Number(raw.value)])

\* metric.steps.push({step: Number(raw.step), value: Number(raw.value)})
pushStep(steps, raw) ==
    Append(steps, [step |-> Number(raw.step), value |-> Number(raw.value)])

\* One turn of the loop "for (const raw of rawList)".
groupOne(experimentMap, raw) ==
    LET withExp ==
            IF ~MapHas(experimentMap, raw.experiment_id)
            THEN MapSet(experimentMap, raw.experiment_id,
                        [experiment_id |-> raw.experiment_id, metrics |-> <<>>])
            ELSE experimentMap
        experiment == MapGet(withExp, raw.experiment_id)
        withMetric ==
            IF ~MapHas(experiment.metrics, raw.metric_name)
            THEN MapSet(experiment.metrics, raw.metric_name,
                        [metric_name |-> raw.metric_name, steps |-> <<>>])
            ELSE experiment.metrics
        metric == MapGet(withMetric, raw.metric_name)
        pushed == [metric EXCEPT !.steps = pushStep(@, raw)]
    IN  MapSet(withExp, raw.experiment_id,
               [experiment EXCEPT
                    !.metrics = MapSet(withMetric, raw.metric_name, pushed)])

RECURSIVE groupLoop(_, _)
groupLoop(experimentMap, list) ==
    IF list = <<>> THEN experimentMap
    ELSE groupLoop(groupOne(experimentMap, Head(list)), Tail(list))

\* The loops "for experiment ... for metric ... metric.steps.sort(...)".
sortLoop(experimentMap, host) ==
    [e \in 1..Len(experimentMap) |->
        LET experiment == experimentMap[e].value
        IN  [key |-> experimentMap[e].key,
             value |->
                [experiment EXCEPT
                    !.metrics =
                        [m \in 1..Len(experiment.metrics) |->
                            LET metric == experiment.metrics[m].value
                            IN  [key |-> experiment.metrics[m].key,
                                 value |-> [metric EXCEPT !.steps = sort(@, host)]]]]]]

groupExperiments(list, host) == sortLoop(groupLoop(<<>>, list), host)

\* Every metric's step array of experimentMap.
StepArrays(experimentMap) ==
    UNION { { experimentMap[e].value.metrics[m].value.steps :
                m \in 1..Len(experimentMap[e].value.metrics) } :
            e \in 1..Len(experimentMap) }

\* The step arrays of experimentMap whose order the language leaves to the host.
OpenSorts(experimentMap) == { s \in StepArrays(experimentMap) : ~IsConsistent(s) }

\* The hosts that agree with host on what it has already sorted and settle
\* every open sort of list: a host sorts the same array the same way each time.
Hosts(list, host) ==
    LET open == OpenSorts(groupLoop(<<>>, list)) \ DOMAIN host
        all  == UNION { Reorderings(s) : s \in open }
    IN  { f @@ host : f \in { g \in [open -> all] : \A s \in open : g[s] \in Reorderings(s) } }

\* ------------------------------------------------------------------ inputs

Raw(e, m, s, v) == [experiment_id |-> e, metric_name |-> m, step |-> s, value |-> v]

\* The parsed rows (Papa.parse, header: true) the model draws files from.
Records ==
    { Raw("e1", "m1", <<"2">>, <<"1">>),
      Raw("e1", "m1", <<"1">>, <<"2">>),
      Raw("e1", "m1", <<"1">>, <<"1">>),
      Raw("e1", "m1", <<"a">>, <<"0">>),
      Raw("e1", "m2", <<" ", "2">>, <<"a">>),
      Raw("e2", "m1", <<"0", "2">>, <<"1", "0">>) }

SeqsUpTo(S, n) == UNION { [1..k -> S] : k \in 0..n }

NoCall == [fn |-> "none", arg |-> "", val |-> <<>>]

\* ------------------------------------------------------------------ SpecBuild

\* groupExperiments as a library function: any record sequence, called on the
\* page's host.
InitBuild ==
    /\ fileName = ""
    /\ dataReady = FALSE
    /\ experiments = <<>>
    /\ selectedExperiments = <<>>
    /\ readers = <<>>
    /\ hostSort = <<>>
    /\ rawList \in SeqsUpTo(Records, MaxRecords)
    /\ ret = NoCall

CallGroupExperiments ==
    /\ \E host \in Hosts(rawList, hostSort) :
          /\ hostSort' = host
          /\ ret' = [fn |-> "groupExperiments", arg |-> "",
                     val |-> groupExperiments(rawList, host)]
    /\ UNCHANGED <<fileName, dataReady, experiments, selectedExperiments, readers, rawList>>

NextBuild == CallGroupExperiments

SpecBuild == InitBuild /\ [][NextBuild]_vars

\* ------------------------------------------------------------------ queries

\* Set.prototype.add on a Set kept in insertion order.
SetAdd(set, x) == IF x \in Range(set) THEN set ELSE Append(set, x)

\* experiment.metrics.forEach((_, metric_name) => metricNames.add(metric_name))
RECURSIVE addMetricNames(_, _)
addMetricNames(metricNames, metrics) ==
    IF metrics = <<>> THEN metricNames
    ELSE addMetricNames(SetAdd(metricNames, Head(metrics).key), Tail(metrics))

\* selectedExperiments.value.forEach((id) => { ... })
RECURSIVE uniqueMetricsLoop(_, _)
uniqueMetricsLoop(metricNames, ids) ==
    IF ids = <<>> THEN metricNames
    ELSE uniqueMetricsLoop(
             IF MapHas(experiments, Head(ids))
             THEN addMetricNames(metricNames, MapGet(experiments, Head(ids)).metrics)
             ELSE metricNames,
             Tail(ids))

\* The loop with an array in place of the Set: a name is pushed each time it is met.
RECURSIVE uniqueMetricsPushing(_, _)
uniqueMetricsPushing(metricNames, ids) ==
    IF ids = <<>> THEN metricNames
    ELSE uniqueMetricsPushing(
             IF MapHas(experiments, Head(ids))
             THEN metricNames \o MapKeys(MapGet(experiments, Head(ids)).metrics)
             ELSE metricNames,
             Tail(ids))

uniqueMetricsWithArray == uniqueMetricsPushing(<<>>, selectedExperiments)

\* The computed uniqueMetrics: Array.from(metricNames).
uniqueMetrics == uniqueMetricsLoop(<<>>, selectedExperiments)

\* experiments.value.get(expId)?.metrics.get(metricName)?.steps || []
stepsOf(expId, metricName) ==
    IF MapHas(experiments, expId) /\ MapHas(MapGet(experiments, expId).metrics, metricName)
    THEN MapGet(MapGet(experiments, expId).metrics, metricName).steps
    ELSE <<>>

\* A turn that pushes no dataset for an experiment without samples.
chartOneSkippingEmpty(chart, expId, metricName) ==
    LET steps == stepsOf(expId, metricName)
    IN  IF steps = <<>> THEN chart
        ELSE [labels |-> IF Len(chart.labels) = 0
                         THEN [i \in 1..Len(steps) |-> toString(steps[i].step)]
                         ELSE chart.labels,
              datasets |-> Append(chart.datasets,
                                  [label |-> expId,
                                   data |-> [i \in 1..Len(steps) |-> steps[i].value]])]

\* A turn without the test labelsX.length === 0: every experiment adds labels.
chartOneAlwaysLabels(chart, expId, metricName) ==
    LET steps == stepsOf(expId, metricName)
    IN  [labels |-> chart.labels \o [i \in 1..Len(steps) |-> toString(steps[i].step)],
         datasets |-> Append(chart.datasets,
                             [label |-> expId,
                              data |-> [i \in 1..Len(steps) |-> steps[i].value]])]

\* One turn of selectedExperiments.value.forEach((expId, i) => { ... }); of a
\* dataset the label and the data are kept, the styling fields are not.
chartOne(chart, expId, metricName) ==
    LET steps      == stepsOf(expId, metricName)
        stepValues == [i \in 1..Len(steps) |-> steps[i].value]
        labelsX    == IF Len(chart.labels) = 0
                      THEN [i \in 1..Len(steps) |-> toString(steps[i].step)]
                      ELSE chart.labels
    IN  [labels |-> labelsX,
         datasets |-> Append(chart.datasets, [label |-> expId, data |-> stepValues])]

RECURSIVE chartLoop(_, _, _)
chartLoop(chart, ids, metricName) ==
    IF ids = <<>> THEN chart
    ELSE chartLoop(chartOne(chart, Head(ids), metricName), Tail(ids), metricName)

getChartData(metricName) ==
    chartLoop([labels |-> <<>>, datasets |-> <<>>], selectedExperiments, metricName)

\* ------------------------------------------------------------------ SpecQuery

\* The ids a Selection is made of: those of Records and one no file holds.
SelectableIds == { r.experiment_id : r \in Records } \cup {"e3"}

\* The metric names asked for: those of Records and one no file holds.
MetricNames == { r.metric_name : r \in Records } \cup {"m3"}

Selections(n) == { s \in SeqsUpTo(SelectableIds, n) : \A i, j \in 1..Len(s) : i # j => s[i] # s[j] }

\* The queries as library functions: any built Index, any Selection.
InitQuery ==
    /\ fileName = "a.csv"
    /\ dataReady = TRUE
    /\ \E list \in SeqsUpTo(Records, MaxQueryRecords) :
          \E host \in Hosts(list, <<>>) :
              /\ hostSort = host
              /\ experiments = groupExperiments(list, host)
    /\ selectedExperiments \in Selections(MaxSelected)
    /\ readers = <<>>
    /\ rawList = <<>>
    /\ ret = NoCall

CallUniqueMetrics ==
    /\ ret' = [fn |-> "uniqueMetrics", arg |-> "", val |-> uniqueMetrics]
    /\ UNCHANGED <<fileName, dataReady, experiments, selectedExperiments, readers,
                   hostSort, rawList>>

\* A getChartData that drops the ids it does not find from the Selection.
CallGetChartDataPruning(metricName) ==
    /\ ret' = [fn |-> "getChartData", arg |-> metricName, val |-> getChartData(metricName)]
    /\ selectedExperiments' =
          LET Known(id) == MapHas(experiments, id) IN SelectSeq(selectedExperiments, Known)
    /\ UNCHANGED <<fileName, dataReady, experiments, readers, hostSort, rawList>>

CallGetChartData(metricName) ==
    /\ ret' = [fn |-> "getChartData", arg |-> metricName, val |-> getChartData(metricName)]
    /\ UNCHANGED <<fileName, dataReady, experiments, selectedExperiments, readers,
                   hostSort, rawList>>

NextQuery ==
    \/ CallUniqueMetrics
    \/ \E metricName \in MetricNames : CallGetChartData(metricName)

SpecQuery == InitQuery /\ [][NextQuery]_vars

\* ------------------------------------------------------------------ the page

\* The files the user picks from: a header alone, two experiments, one
\* experiment, and a file whose steps hold a NaN between two numbers.
Files ==
    { [name |-> "empty.csv", text |-> <<>>],
      [name |-> "a.csv",
       text |-> << Raw("e1", "m1", <<"2">>, <<"1">>),
                   Raw("e1", "m1", <<"1">>, <<"2">>),
                   Raw("e2", "m1", <<"0", "2">>, <<"1", "0">>) >>],
      [name |-> "b.csv",
       text |-> << Raw("e2", "m1", <<"0", "2">>, <<"1", "0">>),
                   Raw("e1", "m2", <<" ", "2">>, <<"a">>) >>],
      [name |-> "c.csv",
       text |-> << Raw("e1", "m1", <<"2">>, <<"1">>),
                   Raw("e1", "m1", <<"a">>, <<"0">>),
                   Raw("e1", "m1", <<"1">>, <<"2">>) >>] }

RemoveAt(s, i) == SubSeq(s, 1, i - 1) \o SubSeq(s, i + 1, Len(s))

\* The state after setup: the refs as declared, nothing read, nothing called.
Init ==
    /\ fileName = ""
    /\ dataReady = FALSE
    /\ experiments = <<>>
    /\ selectedExperiments = <<>>
    /\ readers = <<>>
    /\ hostSort = <<>>
    /\ rawList = <<>>
    /\ ret = NoCall

\* onFileSelect up to reader.readAsText(file): the read is started, its
\* onload runs later. readers holds the parsed rows of each file being read.
onFileSelect(file) ==
    /\ Len(readers) < MaxPending
    /\ selectedExperiments' = <<>>
    /\ dataReady' = FALSE
    /\ fileName' = file.name
    /\ readers' = Append(readers, file.text)
    /\ UNCHANGED <<experiments, hostSort, rawList, ret>>

\* An onload that adds the file's records to the Index it finds.
onloadMerging(i) ==
    /\ i \in 1..Len(readers)
    /\ \E host \in Hosts(readers[i], hostSort) :
          /\ hostSort' = host
          /\ experiments' = sortLoop(groupLoop(experiments, readers[i]), host)
    /\ rawList' = readers[i]
    /\ dataReady' = TRUE
    /\ readers' = RemoveAt(readers, i)
    /\ UNCHANGED <<fileName, selectedExperiments, ret>>

\* reader.onload of the i-th read in flight; reads end in any order. e.target
\* is the reader, so the early return is never taken.
onload(i) ==
    /\ i \in 1..Len(readers)
    /\ \E host \in Hosts(readers[i], hostSort) :
          /\ hostSort' = host
          /\ experiments' = groupExperiments(readers[i], host)
    /\ rawList' = readers[i]
    /\ dataReady' = TRUE
    /\ readers' = RemoveAt(readers, i)
    /\ UNCHANGED <<fileName, selectedExperiments, ret>>

\* A read that fails: the reader has no onerror handler, nothing is written.
readFails(i) ==
    /\ i \in 1..Len(readers)
    /\ readers' = RemoveAt(readers, i)
    /\ UNCHANGED <<fileName, dataReady, experiments, selectedExperiments, hostSort,
                   rawList, ret>>

\* The ids the ScrollPanel lists, each with its Checkbox.
experimentsListed == IF dataReady THEN MapKeys(experiments) ELSE <<>>

\* The charts the page shows: one per metric of uniqueMetrics.
chartsRendered ==
    IF Len(selectedExperiments) > 0
    THEN [k \in 1..Len(uniqueMetrics) |->
             [metric |-> uniqueMetrics[k], data |-> getChartData(uniqueMetrics[k])]]
    ELSE <<>>

\* A click on the Checkbox of id: v-model adds the id to the array or
\* filters it out.
toggleExperiment(id) ==
    /\ id \in Range(experimentsListed)
    /\ selectedExperiments' =
          IF id \in Range(selectedExperiments)
          THEN LET Other(x) == x # id IN SelectSeq(selectedExperiments, Other)
          ELSE Append(selectedExperiments, id)
    /\ UNCHANGED <<fileName, dataReady, experiments, readers, hostSort, rawList, ret>>

Next ==
    \/ \E file \in Files : onFileSelect(file)
    \/ \E i \in 1..MaxPending : onload(i)
    \/ \E i \in 1..MaxPending : readFails(i)
    \/ \E id \in SelectableIds : toggleExperiment(id)

Spec == Init /\ [][Next]_vars

\* ------------------------------------------------------------------ claims on groupExperiments

\* The call under test has returned; its Index is ret.val.
Built == ret.fn = "groupExperiments"

\* The (experiment id, metric name, steps) triples of an Index.
MetricsOf(index) ==
    UNION { { [id |-> index[e].key,
               name |-> index[e].value.metrics[m].key,
               steps |-> index[e].value.metrics[m].value.steps] :
                m \in 1..Len(index[e].value.metrics) } :
            e \in 1..Len(index) }

\* The positions of list whose record belongs to experiment id and metric name.
RECURSIVE PositionsOf(_, _, _, _)
PositionsOf(list, id, name, from) ==
    IF from > Len(list) THEN <<>>
    ELSE IF list[from].experiment_id = id /\ list[from].metric_name = name
         THEN <<from>> \o PositionsOf(list, id, name, from + 1)
         ELSE PositionsOf(list, id, name, from + 1)

\* The samples the records of (id, name) stand for, in input order.
InputSamples(list, id, name) ==
    LET pos == PositionsOf(list, id, name, 1)
    IN  [k \in 1..Len(pos) |->
            [step |-> Number(list[pos[k]].step), value |-> Number(list[pos[k]].value)]]

HasNaNStep(steps) == \E i \in 1..Len(steps) : steps[i].step.nan

AscendingByStep(steps) ==
    \A i \in 1..(Len(steps) - 1) : NumLeq(steps[i].step, steps[i + 1].step)

\* A NaN step together with two different numeric steps: the comparator then
\* calls 1 and 2 both equal to NaN and yet different from each other.
MixedWithNaN(steps) ==
    /\ HasNaNStep(steps)
    /\ \E i, j \in 1..Len(steps) :
          ~steps[i].step.nan /\ ~steps[j].step.nan /\ steps[i].step.v # steps[j].step.v

\* The samples of steps whose step is the number n, in order.
WithStep(steps, n) ==
    LET Is(s) == NumEq(s.step, Num(n)) IN SelectSeq(steps, Is)

NumericSteps(steps) == { steps[i].step.v : i \in { k \in 1..Len(steps) : ~steps[k].step.nan } }

\* Samples with equal steps stand in the output in their input order.
KeepsTies(steps, input) ==
    \A n \in NumericSteps(input) : WithStep(steps, n) = WithStep(input, n)

Count(s, x) == Cardinality({ i \in 1..Len(s) : s[i] = x })

SameSamples(s, t) ==
    /\ Len(s) = Len(t)
    /\ \A x \in Range(s) \cup Range(t) : Count(s, x) = Count(t, x)

NoDuplicates(s) == \A i, j \in 1..Len(s) : i # j => s[i] # s[j]

RECURSIVE SumLen(_)
SumLen(S) ==
    IF S = {} THEN 0
    ELSE LET x == CHOOSE y \in S : TRUE IN Len(x.steps) + SumLen(S \ {x})

\* C1 as claimed: in the built Index every metric's samples are sorted
\* ascending by step, whatever the input records are.
C1_SortedForEveryInput ==
    Built => \A mt \in MetricsOf(ret.val) : AscendingByStep(mt.steps)

\* C1: in the built Index every metric none of whose records has a step that
\* converts to NaN has its samples sorted ascending by step.
C1_SortedWhenStepsAreNumbers ==
    Built =>
        \A mt \in MetricsOf(ret.val) :
            ~HasNaNStep(InputSamples(rawList, mt.id, mt.name)) => AscendingByStep(mt.steps)

\* A metric of numeric steps that arrived out of order and left sorted.
C1_Witness ==
    /\ Built
    /\ \E mt \in MetricsOf(ret.val) :
          /\ ~HasNaNStep(InputSamples(rawList, mt.id, mt.name))
          /\ Len(mt.steps) >= 3
          /\ ~AscendingByStep(InputSamples(rawList, mt.id, mt.name))
          /\ AscendingByStep(mt.steps)

\* C2 as claimed: for every input, records of one metric with equal steps
\* keep their input order in the built Index.
C2_StableForEveryInput ==
    Built =>
        \A mt \in MetricsOf(ret.val) :
            KeepsTies(mt.steps, InputSamples(rawList, mt.id, mt.name))

\* C2: records of one metric with equal steps keep their input order in the
\* built Index, unless that metric's steps hold a NaN together with two
\* different numbers.
C2_StableWhenComparable ==
    Built =>
        \A mt \in MetricsOf(ret.val) :
            ~MixedWithNaN(InputSamples(rawList, mt.id, mt.name)) =>
                KeepsTies(mt.steps, InputSamples(rawList, mt.id, mt.name))

\* Two records with the same step and different values, moved by the sort
\* past a larger step, in their input order.
C2_Witness ==
    /\ Built
    /\ \E mt \in MetricsOf(ret.val) :
          LET input == InputSamples(rawList, mt.id, mt.name)
          IN  /\ ~MixedWithNaN(input)
              /\ mt.steps # input
              /\ \E i, j \in 1..Len(mt.steps) :
                    /\ i < j
                    /\ NumEq(mt.steps[i].step, mt.steps[j].step)
                    /\ mt.steps[i].value # mt.steps[j].value

\* C3: the built Index has one Experiment per experiment_id of the input, one
\* Metric per (experiment_id, metric_name) pair, and in each Metric one sample
\* per record of the pair, records with the same step included; the samples
\* are as many as the records.
C3_GroupsWithoutLossOrDuplication ==
    Built =>
        /\ NoDuplicates(MapKeys(ret.val))
        /\ Range(MapKeys(ret.val)) = { rawList[i].experiment_id : i \in 1..Len(rawList) }
        /\ \A e \in 1..Len(ret.val) :
              /\ NoDuplicates(MapKeys(ret.val[e].value.metrics))
              /\ Range(MapKeys(ret.val[e].value.metrics)) =
                    { rawList[i].metric_name :
                        i \in { k \in 1..Len(rawList) :
                                  rawList[k].experiment_id = ret.val[e].key } }
        /\ \A mt \in MetricsOf(ret.val) :
              SameSamples(mt.steps, InputSamples(rawList, mt.id, mt.name))
        /\ SumLen(MetricsOf(ret.val)) = Len(rawList)

\* Two experiments, and a metric holding two samples of the same step.
C3_Witness ==
    /\ Built
    /\ Len(ret.val) = 2
    /\ \E mt \in MetricsOf(ret.val) :
          \E i, j \in 1..Len(mt.steps) : i # j /\ mt.steps[i].step = mt.steps[j].step

\* ------------------------------------------------------------------ claims on the queries

\* The selected ids that are keys of the Index.
KnownSelected == { id \in Range(selectedExperiments) : MapHas(experiments, id) }

\* C4: uniqueMetrics is the union of the metric names of the selected ids that
\* are keys of the Index, each name once; unknown ids add nothing, the empty
\* Selection gives no name, one known id gives that experiment's names.
C4_UniqueMetricsIsUnion ==
    ret.fn = "uniqueMetrics" =>
        /\ NoDuplicates(ret.val)
        /\ Range(ret.val) =
              UNION { Range(MapKeys(MapGet(experiments, id).metrics)) : id \in KnownSelected }
        /\ (selectedExperiments = <<>> => ret.val = <<>>)
        /\ (Len(selectedExperiments) = 1 /\ KnownSelected # {} =>
                Range(ret.val) =
                    Range(MapKeys(MapGet(experiments, selectedExperiments[1]).metrics)))

\* Two known experiments that share a metric name, and an unknown id beside
\* a known one.
C4_Witness ==
    /\ ret.fn = "uniqueMetrics"
    /\ Len(selectedExperiments) = 2
    /\ \/ /\ Cardinality(KnownSelected) = 2
          /\ \E name \in Range(ret.val) :
                \A id \in KnownSelected : MapHas(MapGet(experiments, id).metrics, name)
       \/ /\ Cardinality(KnownSelected) = 1
          /\ ret.val # <<>>

\* The stored samples of (id, name): none when the id or the metric is absent.
StoredSteps(id, name) ==
    LET found == { mt \in MetricsOf(experiments) : mt.id = id /\ mt.name = name }
    IN  IF found = {} THEN <<>> ELSE (CHOOSE mt \in found : TRUE).steps

\* C5: getChartData gives one dataset per selected id, in Selection order and
\* labelled with the id; its data are the values of that experiment's samples
\* of the metric in stored order, and are empty when the experiment lacks the
\* metric or the id is no key of the Index.
C5_OneSeriesPerSelected ==
    ret.fn = "getChartData" =>
        /\ Len(ret.val.datasets) = Len(selectedExperiments)
        /\ \A i \in 1..Len(selectedExperiments) :
              LET stored == StoredSteps(selectedExperiments[i], ret.arg)
              IN  /\ ret.val.datasets[i].label = selectedExperiments[i]
                  /\ Len(ret.val.datasets[i].data) = Len(stored)
                  /\ \A k \in 1..Len(stored) : ret.val.datasets[i].data[k] = stored[k].value

\* A chart over an experiment with samples and one without the metric.
C5_Witness ==
    /\ ret.fn = "getChartData"
    /\ Len(selectedExperiments) = 2
    /\ \E i, j \in 1..2 :
          /\ Len(ret.val.datasets[i].data) >= 2
          /\ ret.val.datasets[j].data = <<>>
          /\ MapHas(experiments, selectedExperiments[j])

\* The positions of the Selection whose experiment has samples of metric name.
WithSamples(name) ==
    { i \in 1..Len(selectedExperiments) : StoredSteps(selectedExperiments[i], name) # <<>> }

\* C6: the labels of getChartData are the steps, as text and in sample order,
\* of the first selected experiment with samples of the metric; later
\* experiments add nothing, and there are no labels when none has samples.
C6_LabelsFromFirstNonEmpty ==
    ret.fn = "getChartData" =>
        IF WithSamples(ret.arg) = {} THEN ret.val.labels = <<>>
        ELSE LET first  == CHOOSE i \in WithSamples(ret.arg) :
                               \A j \in WithSamples(ret.arg) : i <= j
                 stored == StoredSteps(selectedExperiments[first], ret.arg)
             IN  /\ Len(ret.val.labels) = Len(stored)
                 /\ \A k \in 1..Len(stored) : ret.val.labels[k] = toString(stored[k].step)

\* Labels taken from the second selected experiment, the first having no
\* samples of the metric; and labels of a first experiment kept though a
\* later one has other steps.
C6_Witness ==
    /\ ret.fn = "getChartData"
    /\ Len(selectedExperiments) = 2
    /\ ret.val.labels # <<>>
    /\ \/ StoredSteps(selectedExperiments[1], ret.arg) = <<>>
       \/ /\ StoredSteps(selectedExperiments[2], ret.arg) # <<>>
          /\ [k \in 1..Len(StoredSteps(selectedExperiments[2], ret.arg)) |->
                 toString(StoredSteps(selectedExperiments[2], ret.arg)[k].step)]
             # ret.val.labels

\* C8: evaluating uniqueMetrics or getChartData leaves experiments,
\* selectedExperiments, dataReady and fileName as they were.
C8_QueriesArePureReads ==
    [][UNCHANGED <<experiments, selectedExperiments, dataReady, fileName>>]_vars

\* A chart computed over a Selection that holds an id the Index lacks.
C8_Witness ==
    /\ ret.fn = "getChartData"
    /\ KnownSelected # Range(selectedExperiments)
    /\ KnownSelected # {}
    /\ ret.val.labels # <<>>

\* ------------------------------------------------------------------ claims on the page

\* C7: from the start of an upload until its onload has installed its Index,
\* the Selection is empty, dataReady is false, and nothing on the page is
\* computed from the Index of an earlier upload.
C7_NothingStaleWhileReading ==
    readers # <<>> =>
        /\ selectedExperiments = <<>>
        /\ dataReady = FALSE
        /\ experimentsListed = <<>>
        /\ chartsRendered = <<>>

\* C9: every selected id is a key of the Index.
C9_SelectionWithinIndexKeys ==
    \A id \in Range(selectedExperiments) : MapHas(experiments, id)

\* C10: the Index is the one groupExperiments builds from the records of the
\* file loaded last, and from them alone: no key, metric or sample of an
\* earlier file is left, and only an onload of other records changes it, so
\* loading the same records again gives the same Index.
C10_IndexReplacedWholesale ==
    /\ [](/\ experiments = groupExperiments(rawList, hostSort)
          /\ Range(MapKeys(experiments)) = { rawList[i].experiment_id : i \in 1..Len(rawList) }
          /\ \A mt \in MetricsOf(experiments) :
                SameSamples(mt.steps, InputSamples(rawList, mt.id, mt.name)))
    /\ [][rawList' = rawList => experiments' = experiments]_vars

\* b.csv loaded after c.csv: the Index holds b.csv alone, in order e2, e1.
C10_Witness ==
    /\ hostSort # <<>>
    /\ dataReady
    /\ Len(rawList) = 2
    /\ MapKeys(experiments) = <<"e2", "e1">>
    /\ StoredSteps("e1", "m1") = <<>>

====
